---- MODULE Spec2Model ----
(***************************************************************************)
(* The turn loop of examples/nba/nba_agent.py: a LangGraph StateGraph over *)
(* SimulationState with the nodes simulate_event, process_event, one       *)
(* agent per team and process_transfers, and the conditional edge          *)
(* routing_function.                                                       *)
(*                                                                         *)
(* Graph execution (LangGraph's Pregel loop) as the program uses it:       *)
(*  - the run proceeds in supersteps; the nodes triggered by the previous  *)
(*    superstep run concurrently, their returned updates are buffered and  *)
(*    written to the state when all of them have returned, in a fixed      *)
(*    task order that does not depend on completion order;                 *)
(*  - a key declared Annotated[List, operator.add] (messages,              *)
(*    transfer_offers) is written as  old + update ; any other key is      *)
(*    overwritten by the update;                                           *)
(*  - a node receives the state's values themselves, so a mutation in      *)
(*    place (list.extend, a nested dict entry) is a mutation of the state; *)
(*  - an exception raised by a node ends the run (ainvoke raises);         *)
(*  - the input written at START is the first superstep, every later       *)
(*    superstep adds one, and once more than recursion_limit supersteps    *)
(*    have been completed the run ends with GraphRecursionError, checked   *)
(*    before the next nodes (or the end of the run) are determined.        *)
(*                                                                         *)
(* The language model, the agent executor and the graph store are          *)
(* external: their answers are inputs (the event text, each agent's        *)
(* output), and they are taken to answer.                                  *)
(***************************************************************************)
EXTENDS Integers, Sequences, FiniteSets, TLC

\* ------------------------------------------------------------------ bounds

\* max_iterations (the number read by run_simulation) ranges over 0..MaxIter
MaxIter == 2

\* in a run the agents output at most MaxOffers transfer proposals in all
MaxOffers == 2

\* len(messages) is counted up to MaxMessages
MaxMessages == 1000

\* ------------------------------------------------------- program constants

\* valid_teams, also the keys of initial_state['teams'], in declaration order
Roster == <<"Toronto Raptors", "Boston Celtics", "Golden State Warriors">>

Teams == {Roster[i] : i \in DOMAIN Roster}

\* the starting budget of every team
InitialBudget == 100000000

\* the recursion_limit handed to app.ainvoke
RecursionLimit == 200

\* -------------------------------------------------------------- input sets

\* a team name an agent may write that is not in valid_teams
Outsider == "Los Angeles Lakers"

TeamNames == Teams \cup {Outsider}

Players == {"Player A", "Player B"}

\* the teams the agents take these players to play for
Sellers == {Roster[1], Roster[2]}

\* proposed prices; the larger one exceeds a starting budget
Prices == {60000000, 120000000}

\* The outputs of an agent's executor (result['output']):
\*   nothing      a JSON object without the key transfer_proposal
\*   unparseable  text that is not JSON
\*   no_teams     a transfer_proposal without to_team / from_team
\*   proposal     a transfer_proposal with all four keys
\* An agent names itself or an outsider as the buyer, and a team the players
\* are taken to play for or an outsider as the seller.
NoDecisionFields == [to_team |-> "", from_team |-> "", player_name |-> "", proposed_price |-> 0]

Decision(kind) == [kind |-> kind] @@ NoDecisionFields

Proposals(t) ==
    [kind : {"proposal"}, to_team : {t, Outsider}, from_team : Sellers \cup {Outsider},
     player_name : Players, proposed_price : Prices]

Outputs(t) == {Decision("nothing"), Decision("unparseable"), Decision("no_teams")} \cup Proposals(t)

\* the dict stored in transfer_offers for a proposal
Offer(d) ==
    [to_team |-> d.to_team, from_team |-> d.from_team,
     player_name |-> d.player_name, proposed_price |-> d.proposed_price]

\* ------------------------------------------------------------------- state

VARIABLES
    messages,          \* len(state['messages']), up to MaxMessages
    teams,             \* state['teams'][t]['budget']
    event,             \* state['event']: 0 is '', k the k-th generated text
    transfer_offers,   \* state['transfer_offers']
    current_iteration, \* state['current_iteration']
    all_events,        \* state['all_events'] (None read as [])
    max_iterations,    \* state['max_iterations']
    pc,                \* the node(s) of the next superstep, "END" or "error"
    step,              \* supersteps completed, the START input included
    error,             \* why the run ended in "error"
    agent_pc,          \* per agent task of the superstep: idle/returned/raised
    agent_out,         \* per agent task: the transfer_offers update it returned
    decision,          \* per agent: the kind of output its executor gave this turn
    collected_from,    \* the agents whose updates the last join wrote
    turn_offers,       \* the offers the last join added to transfer_offers
    n_proposals,       \* the transfer proposals the agents have output so far
    seen_offers,       \* the transfer_offers the last process_transfers read
    applied,           \* the best offers the last process_transfers executed
    n_resolutions,     \* how many times process_transfers has run
    owner,             \* per player: the team the last executed transfer moved
                       \* it to (execute_transfer's record), "unknown" before
    completed,         \* the agent tasks of the superstep in the order they ended
    event_seen,        \* per agent: the state['event'] its last invocation read
    invoked            \* per agent: how many times its node has been run

vars == <<messages, teams, event, transfer_offers, current_iteration, all_events,
          max_iterations, pc, step, error, agent_pc, agent_out, decision,
          collected_from, turn_offers, n_proposals, seen_offers, applied,
          n_resolutions, owner, completed, event_seen, invoked>>

sim_state == <<messages, teams, event, transfer_offers, current_iteration,
               all_events, max_iterations>>

ghost == <<seen_offers, applied, n_resolutions, n_proposals, owner>>

join_vars == <<collected_from, turn_offers>>

agent_vars == <<agent_pc, agent_out, decision>>

calls == <<completed, event_seen, invoked>>

\* ----------------------------------------------------------------- helpers

\* operator.add on two lists
ReducerAdd(old, update) == old \o update

\* operator.add on the lengths of two lists of messages
ReducerAddLen(old, update) ==
    IF old + update > MaxMessages THEN MaxMessages ELSE old + update

RECURSIVE SumBudgets(_, _)
SumBudgets(tm, S) ==
    IF S = {} THEN 0
    ELSE LET t == CHOOSE x \in S : TRUE IN tm[t] + SumBudgets(tm, S \ {t})

TotalBudget == SumBudgets(teams, DOMAIN teams)

\* the run loop after a superstep: GraphRecursionError once more than
\* recursion_limit supersteps are completed, else on to `next`
AfterSuperstep(next) ==
    /\ step' = step + 1
    /\ IF step + 1 > RecursionLimit
       THEN pc' = "error" /\ error' = "GraphRecursionError"
       ELSE pc' = next /\ error' = error

AgentsIdle == [t \in Teams |-> "idle"]

NoUpdates == [t \in Teams |-> <<>>]

NoDecisions == [t \in Teams |-> "none"]

\* -------------------------------------------------------------------- Init

InitState(n) ==
    /\ messages = 0
    /\ teams = [t \in Teams |-> InitialBudget]
    /\ event = 0
    /\ transfer_offers = <<>>
    /\ current_iteration = 0
    /\ all_events = <<>>
    /\ max_iterations = n
    /\ pc = "simulate_event"
    /\ step = 1
    /\ error = "none"
    /\ agent_pc = AgentsIdle
    /\ agent_out = NoUpdates
    /\ decision = NoDecisions
    /\ collected_from = {}
    /\ turn_offers = <<>>
    /\ n_proposals = 0
    /\ seen_offers = <<>>
    /\ applied = <<>>
    /\ n_resolutions = 0
    /\ owner = [p \in Players |-> "unknown"]
    /\ completed = <<>>
    /\ event_seen = [t \in Teams |-> 0]
    /\ invoked = [t \in Teams |-> 0]

Init == \E n \in 0..MaxIter : InitState(n)

\* the runs long enough to meet the recursion limit: four supersteps a turn
LongRuns == (RecursionLimit \div 4 - 1)..(RecursionLimit \div 4 + 1)

InitLong == \E n \in LongRuns : InitState(n)

\* process_transfers as a function of the state it is given: offers that name
\* a team outside state['teams'] as well (the agents' validation lets none
\* through, so the runs of Spec never hand it one)
ResolveOffers ==
    [to_team : {Roster[3], Outsider}, from_team : {Roster[1], Outsider},
     player_name : Players, proposed_price : Prices]

SeqsUpTo(S, n) == UNION {[1..k -> S] : k \in 1..n}

\* the first turn's process_transfers is about to run on the given offers
InitResolve ==
    /\ max_iterations \in 1..MaxIter
    /\ transfer_offers \in SeqsUpTo(ResolveOffers, MaxOffers)
    /\ turn_offers = transfer_offers
    /\ n_proposals = Len(transfer_offers)
    /\ messages = 1
    /\ teams = [t \in Teams |-> InitialBudget]
    /\ event = 1
    /\ current_iteration = 1
    /\ all_events = <<1>>
    /\ pc = "process_transfers"
    /\ step = 4
    /\ error = "none"
    /\ agent_pc = AgentsIdle
    /\ agent_out = NoUpdates
    /\ decision = NoDecisions
    /\ collected_from = Teams
    /\ seen_offers = <<>>
    /\ applied = <<>>
    /\ n_resolutions = 0
    /\ owner = [p \in Players |-> "unknown"]
    /\ completed = Roster
    /\ event_seen = [t \in Teams |-> 1]
    /\ invoked = [t \in Teams |-> 1]

\* ---------------------------------------------------------- simulate_event

\* simulate_event with the log replaced by a list of the new event alone
simulate_event_overwrites ==
    /\ pc = "simulate_event"
    /\ LET new_event == Len(all_events) + 1 IN
         /\ event' = new_event
         /\ all_events' = <<new_event>>
    /\ messages' = ReducerAddLen(messages, messages)
    /\ transfer_offers' = ReducerAdd(transfer_offers, <<>>)
    /\ current_iteration' = current_iteration + 1
    /\ AfterSuperstep("process_event")
    /\ UNCHANGED <<teams, max_iterations, agent_vars, join_vars, ghost, calls>>

\* The node returns {**state, event, all_events, transfer_offers: [],
\* current_iteration + 1}: messages is written as messages + messages and
\* transfer_offers as transfer_offers + [].
simulate_event ==
    /\ pc = "simulate_event"
    /\ LET new_event == Len(all_events) + 1 IN
         /\ event' = new_event
         /\ all_events' = Append(all_events, new_event)
    /\ messages' = ReducerAddLen(messages, messages)
    /\ transfer_offers' = ReducerAdd(transfer_offers, <<>>)
    /\ current_iteration' = current_iteration + 1
    /\ AfterSuperstep("process_event")
    /\ UNCHANGED <<teams, max_iterations, agent_vars, join_vars, ghost, calls>>

\* ----------------------------------------------------------- process_event

\* The node returns {**state, messages: [one line], transfer_offers: []};
\* its edges start the three agents in the next superstep.
process_event ==
    /\ pc = "process_event"
    /\ messages' = ReducerAddLen(messages, 1)
    /\ transfer_offers' = ReducerAdd(transfer_offers, <<>>)
    /\ AfterSuperstep("agents")
    /\ decision' = NoDecisions
    /\ collected_from' = {}
    /\ turn_offers' = <<>>
    /\ UNCHANGED <<teams, event, current_iteration, all_events, max_iterations,
                   agent_pc, agent_out, ghost, calls>>

\* ----------------------------------------------------- team_agent_function

\* json.loads fails on text that is not JSON; transfer_offer['to_team']
\* fails on a proposal without the team keys
Raises(d) == d.kind \in {"unparseable", "no_teams"}

\* RosterValid with only the buyer tested
RosterValid_BuyerOnly(d) ==
    /\ d.kind = "proposal"
    /\ d.to_team \in Teams

\* the proposal passes the valid_teams test
RosterValid(d) ==
    /\ d.kind = "proposal"
    /\ d.to_team \in Teams
    /\ d.from_team \in Teams

\* the update the agent returns for transfer_offers
AgentUpdate(d) == IF RosterValid(d) THEN <<Offer(d)>> ELSE <<>>

DecisionKind(d) ==
    IF d.kind = "proposal" /\ ~RosterValid(d) THEN "invalid_team" ELSE d.kind

\* the bound on the agents' proposals; in the long runs they make none
ProposalBudget == IF max_iterations <= MaxIter THEN MaxOffers ELSE 0

MayOutput(d) == d.kind = "proposal" => n_proposals < ProposalBudget

\* team_agent_returns with the buyer's budget debited as the offer is made
team_agent_returns_debits(t) ==
    /\ pc = "agents"
    /\ agent_pc[t] = "idle"
    /\ \E d \in Outputs(t) :
         /\ MayOutput(d)
         /\ ~Raises(d)
         /\ agent_out' = [agent_out EXCEPT ![t] = AgentUpdate(d)]
         /\ decision' = [decision EXCEPT ![t] = DecisionKind(d)]
         /\ n_proposals' = IF d.kind = "proposal" THEN n_proposals + 1 ELSE n_proposals
         /\ teams' = IF RosterValid(d)
                     THEN [teams EXCEPT ![d.to_team] = @ - d.proposed_price]
                     ELSE teams
    /\ agent_pc' = [agent_pc EXCEPT ![t] = "returned"]
    /\ completed' = Append(completed, t)
    /\ event_seen' = [event_seen EXCEPT ![t] = event]
    /\ invoked' = [invoked EXCEPT ![t] = @ + 1]
    /\ UNCHANGED <<messages, event, transfer_offers, current_iteration, all_events,
                   max_iterations, pc, step, error, join_vars, seen_offers, applied,
                   n_resolutions, owner>>

\* the agent of team t returns its update; nothing is written yet
team_agent_returns(t) ==
    /\ pc = "agents"
    /\ agent_pc[t] = "idle"
    /\ \E d \in Outputs(t) :
         /\ MayOutput(d)
         /\ ~Raises(d)
         /\ agent_out' = [agent_out EXCEPT ![t] = AgentUpdate(d)]
         /\ decision' = [decision EXCEPT ![t] = DecisionKind(d)]
         /\ n_proposals' = IF d.kind = "proposal" THEN n_proposals + 1 ELSE n_proposals
    /\ agent_pc' = [agent_pc EXCEPT ![t] = "returned"]
    /\ completed' = Append(completed, t)
    /\ event_seen' = [event_seen EXCEPT ![t] = event]
    /\ invoked' = [invoked EXCEPT ![t] = @ + 1]
    /\ UNCHANGED <<sim_state, pc, step, error, join_vars, seen_offers, applied,
                   n_resolutions, owner>>

\* the agent of team t raises (JSONDecodeError, KeyError): the run ends
team_agent_raises(t) ==
    /\ pc = "agents"
    /\ agent_pc[t] = "idle"
    /\ \E d \in Outputs(t) :
         /\ Raises(d)
         /\ decision' = [decision EXCEPT ![t] = DecisionKind(d)]
    /\ agent_pc' = [agent_pc EXCEPT ![t] = "raised"]
    /\ completed' = Append(completed, t)
    /\ event_seen' = [event_seen EXCEPT ![t] = event]
    /\ invoked' = [invoked EXCEPT ![t] = @ + 1]
    /\ pc' = "error"
    /\ error' = "agent exception"
    /\ UNCHANGED <<sim_state, step, agent_out, join_vars, ghost>>

\* ------------------------------------------- the agents' superstep is over

\* JoinReady with process_transfers started by the first agent to return
JoinReady_AnyReturned == \E t \in Teams : agent_pc[t] = "returned"

\* process_transfers has an edge from every agent: it is started by the
\* superstep in which the agents ran, when all of them have returned
JoinReady == \A t \in Teams : agent_pc[t] = "returned"

RECURSIVE CollectedInOrder(_)
CollectedInOrder(order) ==
    IF order = <<>> THEN <<>>
    ELSE agent_out[Head(order)] \o CollectedInOrder(Tail(order))

\* Collected with the updates written in the order the agents ended
Collected_CompletionOrder == CollectedInOrder(completed)

RECURSIVE CollectedFrom(_)
CollectedFrom(i) ==
    IF i > Len(Roster) THEN <<>>
    ELSE agent_out[Roster[i]] \o CollectedFrom(i + 1)

\* the agents' updates in task order
Collected == CollectedFrom(1)

\* the updates are written and the superstep's tasks are gone
agents_join ==
    /\ pc = "agents"
    /\ JoinReady
    /\ transfer_offers' = ReducerAdd(transfer_offers, Collected)
    /\ turn_offers' = Collected
    /\ collected_from' = {t \in Teams : agent_pc[t] = "returned"}
    /\ agent_pc' = AgentsIdle
    /\ agent_out' = NoUpdates
    /\ AfterSuperstep("process_transfers")
    /\ UNCHANGED <<messages, teams, event, current_iteration, all_events,
                   max_iterations, decision, ghost, calls>>

\* ------------------------------------------------------- process_transfers

\* the keys of offers_by_player in insertion order
RECURSIVE PlayersIn(_)
PlayersIn(offers) ==
    IF offers = <<>> THEN <<>>
    ELSE LET p == offers[1].player_name
             rest == SelectSeq(Tail(offers), LAMBDA o : o.player_name # p)
         IN <<p>> \o PlayersIn(rest)

OffersFor(offers, p) == SelectSeq(offers, LAMBDA o : o.player_name = p)

\* MaxFrom with the last offer of the highest price kept
RECURSIVE MaxFrom_LastWins(_, _, _)
MaxFrom_LastWins(offers, i, best) ==
    IF i > Len(offers) THEN best
    ELSE MaxFrom_LastWins(offers, i + 1,
                          IF offers[i].proposed_price >= best.proposed_price
                          THEN offers[i] ELSE best)

\* max(offers, key=proposed_price): the first offer of the highest price
RECURSIVE MaxFrom(_, _, _)
MaxFrom(offers, i, best) ==
    IF i > Len(offers) THEN best
    ELSE MaxFrom(offers, i + 1,
                 IF offers[i].proposed_price > best.proposed_price
                 THEN offers[i] ELSE best)

BestOffer(offers) == MaxFrom(offers, 2, offers[1])

\* BestOffers with every offer executed
BestOffers_EveryOffer(offers) == offers

\* the best offer of every player, in the order of the loop
BestOffers(offers) ==
    LET ps == PlayersIn(offers)
    IN [i \in 1..Len(ps) |-> BestOffer(OffersFor(offers, ps[i]))]

\* ApplyTransfer with the buyer not debited
ApplyTransfer_CreditOnly(tm, o) ==
    IF o.from_team \in DOMAIN tm /\ o.to_team \in DOMAIN tm
    THEN [tm EXCEPT ![o.from_team] = @ + o.proposed_price]
    ELSE tm

\* ApplyTransfer with an offer the buyer cannot afford skipped
ApplyTransfer_Affordable(tm, o) ==
    IF /\ o.from_team \in DOMAIN tm
       /\ o.to_team \in DOMAIN tm
       /\ tm[o.to_team] >= o.proposed_price
    THEN LET credited == [tm EXCEPT ![o.from_team] = @ + o.proposed_price]
         IN [credited EXCEPT ![o.to_team] = @ - o.proposed_price]
    ELSE tm

\* ApplyTransfer with the price moved from the seller to the buyer
ApplyTransfer_SellerPays(tm, o) ==
    IF o.from_team \in DOMAIN tm /\ o.to_team \in DOMAIN tm
    THEN LET debited == [tm EXCEPT ![o.from_team] = @ - o.proposed_price]
         IN [debited EXCEPT ![o.to_team] = @ + o.proposed_price]
    ELSE tm

\* the budget update of one executed transfer
ApplyTransfer(tm, o) ==
    IF o.from_team \in DOMAIN tm /\ o.to_team \in DOMAIN tm
    THEN LET credited == [tm EXCEPT ![o.from_team] = @ + o.proposed_price]
         IN [credited EXCEPT ![o.to_team] = @ - o.proposed_price]
    ELSE tm

RECURSIVE ApplyAll(_, _)
ApplyAll(tm, best) ==
    IF best = <<>> THEN tm
    ELSE ApplyAll(ApplyTransfer(tm, Head(best)), Tail(best))

\* execute_transfer records every executed offer as a move of the player to
\* the buyer, whatever the budget update does
Moved(own, best) ==
    [p \in DOMAIN own |->
        IF \E i \in DOMAIN best : best[i].player_name = p
        THEN (best[CHOOSE i \in DOMAIN best : best[i].player_name = p]).to_team
        ELSE own[p]]

\* routing_function with the next turn entered at the broadcast
routing_function_SkipsEvent ==
    IF current_iteration >= max_iterations THEN "END" ELSE "process_event"

routing_function ==
    IF current_iteration >= max_iterations THEN "END" ELSE "simulate_event"

\* The node returns the state it was given, so messages is written as
\* messages + messages (after the extend in place) and transfer_offers as
\* transfer_offers + [] (the assignment of [] is to the node's own dict).
process_transfers ==
    /\ pc = "process_transfers"
    /\ n_resolutions' = n_resolutions + 1
    /\ n_proposals' = n_proposals
    /\ seen_offers' = transfer_offers
    /\ completed' = <<>>
    /\ IF transfer_offers = <<>>
       THEN /\ applied' = <<>>
            /\ owner' = owner
            /\ messages' = ReducerAddLen(messages, messages)
            /\ teams' = teams
            /\ transfer_offers' = ReducerAdd(transfer_offers, <<>>)
            /\ AfterSuperstep(routing_function)
       ELSE LET best == BestOffers(transfer_offers) IN
            /\ applied' = best
            /\ owner' = Moved(owner, best)
            /\ messages' = ReducerAddLen(messages + Len(best), messages + Len(best))
            /\ teams' = ApplyAll(teams, best)
            /\ transfer_offers' = ReducerAdd(transfer_offers, <<>>)
            /\ AfterSuperstep(routing_function)
    /\ UNCHANGED <<event, current_iteration, all_events, max_iterations,
                   agent_vars, join_vars, event_seen, invoked>>

\* ---------------------------------------------------------- specification

Next ==
    \/ simulate_event
    \/ process_event
    \/ \E t \in Teams : team_agent_returns(t)
    \/ \E t \in Teams : team_agent_raises(t)
    \/ agents_join
    \/ process_transfers

Spec == Init /\ [][Next]_vars

\* the long runs, which meet the recursion limit
SpecLong == InitLong /\ [][Next]_vars

SpecResolve == InitResolve /\ [][Next]_vars

\* ------------------------------------------------------------- properties

InitialTeams == [t \in Teams |-> InitialBudget]

\* the places of the offers for player p in a list of offers
PlacesOf(offers, p) == {j \in DOMAIN offers : offers[j].player_name = p}

Least(S) == CHOOSE j \in S : \A k \in S : j <= k

\* the run is between two turns, or over by the routing function
AtTurnEnd == pc \in {"simulate_event", "END"}

\* the run is inside a turn
InsideTurn == pc \in {"process_event", "agents", "process_transfers"}

\* C1: in every reachable state the budgets of all teams sum to the sum of
\* the initial budgets.
C1_BudgetsConserved == TotalBudget = Len(Roster) * InitialBudget

\* two resolutions have run and have moved money
C1_Witness ==
    /\ n_resolutions = 2
    /\ applied # <<>>
    /\ \E t \in Teams : teams[t] # InitialBudget

\* C2: every offer a resolution executed has the highest proposed_price among
\* the offers for its player in the list the resolution read, is the earliest
\* of that price in the list, and every player with an offer has one executed.
C2_HighestEarliestWins ==
    /\ \A i \in DOMAIN applied :
         LET a == applied[i]
             places == PlacesOf(seen_offers, a.player_name)
         IN /\ places # {}
            /\ \A j \in places : seen_offers[j].proposed_price <= a.proposed_price
            /\ a = seen_offers[Least({j \in places :
                       seen_offers[j].proposed_price = a.proposed_price})]
    /\ \A j \in DOMAIN seen_offers :
         \E i \in DOMAIN applied : applied[i].player_name = seen_offers[j].player_name

\* a resolution read two different offers of one price for one player
C2_Witness ==
    /\ applied # <<>>
    /\ \E i, j \in DOMAIN seen_offers :
         /\ i < j
         /\ seen_offers[i] # seen_offers[j]
         /\ seen_offers[i].player_name = seen_offers[j].player_name
         /\ seen_offers[i].proposed_price = seen_offers[j].proposed_price

\* C3: a resolution executes at most one offer per player: no two executed
\* offers name the same player, and as many are executed as there are players
\* with an offer.
C3_OneTransferPerPlayer ==
    /\ \A i, j \in DOMAIN applied :
         applied[i].player_name = applied[j].player_name => i = j
    /\ Len(applied) =
         Cardinality({seen_offers[j].player_name : j \in DOMAIN seen_offers})

\* a resolution read two offers of different prices for one player
C3_Witness ==
    /\ Len(applied) = 1
    /\ \E i, j \in DOMAIN seen_offers :
         /\ seen_offers[i].player_name = seen_offers[j].player_name
         /\ seen_offers[i].proposed_price < seen_offers[j].proposed_price

\* C4: transfer_offers is empty when the agents of a turn start, and what
\* process_transfers is about to resolve is exactly what the agents of that
\* turn submitted.
C4_NoCarryOver ==
    /\ pc = "agents" => transfer_offers = <<>>
    /\ pc = "process_transfers" => transfer_offers = turn_offers

\* C5: current_iteration never exceeds max_iterations (that it never
\* decreases is C5_NeverDecreases).
C5_NeverExceedsMax == current_iteration <= max_iterations

C5_NeverDecreases == [][current_iteration' >= current_iteration]_vars

\* C6: a run with max_iterations = 0 stays in its initial state: no event, no
\* agent, no resolution.
C6_ZeroTurns ==
    max_iterations = 0 =>
        /\ current_iteration = 0
        /\ event = 0
        /\ all_events = <<>>
        /\ messages = 0
        /\ transfer_offers = <<>>
        /\ teams = InitialTeams
        /\ n_resolutions = 0
        /\ \A t \in Teams : agent_pc[t] = "idle"
        /\ pc \in {"simulate_event", "END"}

\* C7: a run with max_iterations >= 1 that is over, and not by an exception of
\* a node, has reached END with current_iteration = max_iterations after that
\* many resolutions.
C7_CompletesAllTurns ==
    (max_iterations >= 1 /\ pc \in {"END", "error"} /\ error # "agent exception") =>
        /\ pc = "END"
        /\ current_iteration = max_iterations
        /\ n_resolutions = max_iterations

\* C8: process_transfers starts only when every agent of the turn has
\* returned and its update is written, it runs once a turn, and the list it
\* reads ends with the offers of that turn's agents.
C8_ResolvesAfterJoin ==
    /\ pc = "process_transfers" =>
         /\ collected_from = Teams
         /\ \A t \in Teams : agent_pc[t] = "idle"
         /\ Len(transfer_offers) >= Len(turn_offers)
         /\ SubSeq(transfer_offers, Len(transfer_offers) - Len(turn_offers) + 1,
                   Len(transfer_offers)) = turn_offers
    /\ InsideTurn => n_resolutions = current_iteration - 1
    /\ AtTurnEnd => n_resolutions = current_iteration
    /\ (AtTurnEnd /\ n_resolutions >= 1) =>
         /\ collected_from = Teams
         /\ Len(seen_offers) >= Len(turn_offers)
         /\ SubSeq(seen_offers, Len(seen_offers) - Len(turn_offers) + 1,
                   Len(seen_offers)) = turn_offers

\* a resolution is about to start on the offers of two agents of its turn
C8_Witness ==
    /\ pc = "process_transfers"
    /\ Len(turn_offers) = 2
    /\ collected_from = Teams

\* C9: the budgets change only in a step of process_transfers: simulate_event,
\* process_event, the agents and the join leave them as they are.
C9_OnlyResolutionWritesBudgets == [][teams' # teams => pc = "process_transfers"]_vars

\* in a second turn, after a transfer, an agent has returned an offer
C9_Witness ==
    /\ pc = "agents"
    /\ teams # InitialTeams
    /\ \E t \in Teams : agent_out[t] # <<>>

\* C10: an agent output that is not JSON, or a proposal without the team keys,
\* does not end the run.
C10_MalformedDropped ==
    \A t \in Teams : decision[t] \in {"unparseable", "no_teams"} => pc # "error"

\* C11: a proposal whose to_team or from_team is not in valid_teams is dropped
\* by the agent: it returns no offer, no offer naming a team outside the roster
\* is ever pending or read by a resolution, a run whose only proposals were
\* such ones has the initial budgets, and the run is not ended by it.
C11_InvalidTeamDropped ==
    /\ \A t \in Teams :
         (decision[t] = "invalid_team" /\ agent_pc[t] = "returned") => agent_out[t] = <<>>
    /\ \A t \in Teams : \A i \in DOMAIN agent_out[t] :
         agent_out[t][i].to_team \in Teams /\ agent_out[t][i].from_team \in Teams
    /\ \A i \in DOMAIN transfer_offers :
         transfer_offers[i].to_team \in Teams /\ transfer_offers[i].from_team \in Teams
    /\ \A i \in DOMAIN seen_offers :
         seen_offers[i].to_team \in Teams /\ seen_offers[i].from_team \in Teams
    /\ transfer_offers = <<>> => teams = InitialTeams
    /\ (pc = "error" /\ error = "agent exception") =>
         \E t \in Teams : decision[t] \in {"unparseable", "no_teams"}

\* a turn whose only proposal named a team outside the roster has been resolved
C11_Witness ==
    /\ AtTurnEnd
    /\ n_resolutions >= 1
    /\ \E t \in Teams : decision[t] = "invalid_team"
    /\ seen_offers = <<>>
    /\ teams = InitialTeams

\* C12: a resolution executes an offer only if its from_team is the team the
\* player was last moved to (any from_team while no transfer of the player
\* has been executed).
C12_SellerOwnsPlayer ==
    [][pc = "process_transfers" =>
        \A i \in DOMAIN applied' :
            owner[applied'[i].player_name] \in {"unknown", applied'[i].from_team}]_vars

\* C13: a step of process_transfers on an empty transfer_offers leaves every
\* field of SimulationState as it was.
C13_EmptyResolutionChangesNothing ==
    [][(pc = "process_transfers" /\ transfer_offers = <<>>) => UNCHANGED sim_state]_vars

\* what the executed offers pay to team t less what they charge it
RECURSIVE NetFlow(_, _)
NetFlow(t, best) ==
    IF best = <<>> THEN 0
    ELSE LET o == Head(best)
         IN (IF o.from_team = t THEN o.proposed_price ELSE 0)
            - (IF o.to_team = t THEN o.proposed_price ELSE 0)
            + NetFlow(t, Tail(best))

\* C14: a resolution charges every buyer the full price of every offer it
\* executes, whatever the buyer's budget: each budget changes by exactly what
\* the executed offers pay to the team less what they charge it.
C14_NoAffordabilityCheck ==
    [][pc = "process_transfers" =>
        \A t \in Teams : teams'[t] = teams[t] + NetFlow(t, applied')]_vars

\* a buyer has paid more than it had: its budget is negative
C14_Witness ==
    \E i \in DOMAIN applied :
        /\ applied[i].proposed_price > InitialBudget
        /\ teams[applied[i].to_team] < 0


\* the agents' updates, the first team of the roster first
RosterOrder(out) == out[Roster[1]] \o out[Roster[2]] \o out[Roster[3]]

UnknownParticipant(offers) ==
    \E i \in DOMAIN BestOffers(offers) :
        \/ BestOffers(offers)[i].from_team \notin DOMAIN teams
        \/ BestOffers(offers)[i].to_team \notin DOMAIN teams

C17_BuyerIsNotSeller ==
    pc = "process_transfers" =>
        \A i \in DOMAIN transfer_offers :
            /\ transfer_offers[i].to_team # transfer_offers[i].from_team
            /\ transfer_offers[i].to_team \in Teams
            /\ transfer_offers[i].from_team \in Teams


\* the budgets once the first n executed offers of a resolution are applied
BudgetsAfter(n) == ApplyAll(teams, SubSeq(applied', 1, n))

\* C18: each applied transfer whose buyer is not its seller takes exactly its
\* price from the buyer's budget, adds exactly its price to the seller's and
\* leaves every other team's budget as it was; the budgets a resolution
\* writes are those after the last of its transfers.
C18_BuyerPaysSeller ==
    [][pc = "process_transfers" =>
         /\ teams' = BudgetsAfter(Len(applied'))
         /\ \A i \in DOMAIN applied' :
              LET o == applied'[i]
                  before == BudgetsAfter(i - 1)
                  after == BudgetsAfter(i)
              IN o.to_team # o.from_team =>
                   /\ after[o.to_team] = before[o.to_team] - o.proposed_price
                   /\ after[o.from_team] = before[o.from_team] + o.proposed_price
                   /\ \A t \in Teams \ {o.to_team, o.from_team} :
                        after[t] = before[t]]_vars

\* one transfer between two teams has been applied to the initial budgets
C18_Witness ==
    /\ n_resolutions = 1
    /\ Len(applied) = 1
    /\ applied[1].to_team # applied[1].from_team
    /\ teams[applied[1].to_team] = InitialBudget - applied[1].proposed_price
    /\ teams[applied[1].from_team] = InitialBudget + applied[1].proposed_price
    /\ \E t \in Teams \ {applied[1].to_team, applied[1].from_team} :
         teams[t] = InitialBudget


\* C19: one event is produced per turn and the event log is append-only:
\* simulate_event leaves the earlier entries as they were, in order, and adds
\* the turn's event at the end, no other step touches the log, and the length
\* of all_events is current_iteration throughout.
C19_EventLogAppendOnly ==
    [][/\ Len(all_events) = current_iteration
       /\ Len(all_events') = current_iteration'
       /\ pc = "simulate_event" =>
            /\ Len(all_events') = Len(all_events) + 1
            /\ SubSeq(all_events', 1, Len(all_events)) = all_events
            /\ all_events'[Len(all_events')] = event'
       /\ pc # "simulate_event" =>
            /\ all_events' = all_events
            /\ event' = event]_vars

\* two turns are over and the log holds their two events in order
C19_Witness ==
    /\ pc = "END"
    /\ current_iteration = 2
    /\ all_events = <<1, 2>>
    /\ event = 2


\* the phases that may follow each phase of a turn
NextPhases(phase) ==
    CASE phase = "simulate_event" -> {"process_event"}
      [] phase = "process_event" -> {"agents"}
      [] phase = "agents" -> {"agents", "process_transfers"}
      [] phase = "process_transfers" -> {"simulate_event", "END"}
      [] OTHER -> {}

\* C20: in each turn the phases come in the order event generation,
\* broadcast, proposal collection, resolution, continue/halt decision; every
\* agent is invoked exactly once per turn; and the event an agent is given in
\* turn k is the one generated in turn k.
C20_PhasesInOrder ==
    [][/\ pc' \in NextPhases(pc) \cup {"error"}
       /\ pc' \in {"process_event", "agents", "process_transfers"} =>
            /\ current_iteration' >= 1
            /\ event' = all_events'[current_iteration']
       /\ \A t \in Teams :
            /\ invoked'[t] \in {invoked[t], invoked[t] + 1}
            /\ invoked'[t] = invoked[t] + 1 =>
                 /\ pc = "agents"
                 /\ invoked'[t] = current_iteration
                 /\ event_seen'[t] = all_events[current_iteration]
            /\ pc' = "process_event" => invoked'[t] = current_iteration' - 1
            /\ pc' \in {"process_transfers", "simulate_event", "END"} =>
                 /\ invoked'[t] = current_iteration'
                 /\ event_seen'[t] = all_events'[current_iteration']]_vars

\* the agents of the second turn have all been given the second event
C20_Witness ==
    /\ pc = "process_transfers"
    /\ current_iteration = 2
    /\ \A t \in Teams : invoked[t] = 2 /\ event_seen[t] = all_events[2]
    /\ all_events[2] # all_events[1]

====
